---- MODULE Spec2Model ----
(***************************************************************************)
(* State-machine model of the market downloaders (downloader_cn.py,        *)
(* downloader_hk.py, downloader_us.py, downloader_kr.py) and of the step   *)
(* of run_market_pipeline (main.py) that calls them.                       *)
(*                                                                         *)
(* The scripts are independent programs.  `prog` selects which part of the *)
(* code a behaviour exercises:                                             *)
(*   "resolve"  list resolution of one market (get_cn_list,                *)
(*              get_full_stock_list of HK and US, get_kr_list), run        *)
(*              repeatedly over several days against one cache file;       *)
(*   "fetch"    the HK / US pool run (download_stock_data + main);         *)
(*   "kr"       the KR manifest-driven run (build_manifest, download_one,  *)
(*              main), run repeatedly against one data directory;          *)
(*   "ckpt"     the KR completion loop of main with the real checkpoint    *)
(*              interval, entries counted instead of named.                *)
(***************************************************************************)
EXTENDS Integers, Sequences, FiniteSets, TLC

VARIABLES
    prog,       \* which program the behaviour runs
    mkt,        \* market of that program: "cn", "hk", "us", "kr"
    \* ---- list resolution ----
    today,      \* calendar day (datetime.now().date())
    cache,      \* the list cache file (CACHE_LIST_PATH / LIST_ALL_CSV)
    rpc,        \* position inside the resolver function
    tries,      \* loop variable i of the retry loop (HK, KR); site index (US)
    cand,       \* list built from the primary registry in this attempt
    ret,        \* the value the resolver returned
    qseq,       \* number of primary responses handed out so far (content id)
    runs,       \* number of resolver invocations so far
    rstart,     \* history: the cache file when this resolution started
    nq,         \* history: primary queries issued by this resolution
    metT        \* history: some primary result of this resolution met threshold

VARIABLES
    \* ---- HK / US pool run ----
    items,      \* the resolved list handed to main (a duplicate-free list)
    art,        \* DATA_DIR: the output artifact of each security
    clk,        \* wall clock, in units of half the expiry window
    job,        \* per security: the state of its download_stock_data call
    mpc,        \* position inside main
    got,        \* futures whose result main has consumed
    stats,      \* main's stats dictionary
    rstats,     \* the dictionary main returned
    pauses,     \* number of extra pacing sleeps main took (HK)
    fruns       \* number of pool runs started so far

VARIABLES
    \* ---- KR manifest run ----
    klist,      \* df_list: what get_kr_list returned
    kmf,        \* mf: the manifest in memory
    kdisk,      \* MANIFEST_CSV
    kfiles,     \* DATA_DIR: for each possible file name, none / whole / cut
    kjob,       \* per manifest row: the state of its download_one call
    kdisp,      \* index labels of the rows submitted to the pool
    kgot,       \* futures whose result main has consumed
    kcount,     \* main's count
    kpc,        \* position inside main
    kruns       \* number of runs started so far

VARIABLES
    \* ---- KR completion loop, rows counted ----
    cN,         \* len(todo)
    cCount,     \* count
    cDirty,     \* rows in which MANIFEST_CSV differs from mf
    cSinceEF,   \* rows set to empty/failed since the file was last written
    cSavedAt,   \* value of count when the file was last written
    cSavedEF,   \* rows of this run written to the file as empty/failed
    cpc         \* position inside the loop

VARIABLES
    \* ---- run_market_pipeline of main.py around an HK / US / KR run ----
    ppc,        \* position inside run_market_pipeline
    pmain,      \* how the call of the downloader's main() ended
    pstats      \* the local variable stats

VARIABLES
    \* ---- main of main.py ----
    omode,      \* args.market
    opc,        \* position inside main
    oi,         \* number of entries of markets_config the loop has taken
    ostarted,   \* market ids for which run_market_pipeline was called, in order
    opipe,      \* the running call of run_market_pipeline
    oraised     \* market ids whose pipeline caught an exception

rvars == <<today, cache, rpc, tries, cand, ret, qseq, runs, rstart, nq, metT>>
fvars == <<items, art, clk, job, mpc, got, stats, rstats, pauses, fruns>>
kvars == <<klist, kmf, kdisk, kfiles, kjob, kdisp, kgot, kcount, kpc, kruns>>
cvars == <<cN, cCount, cDirty, cSinceEF, cSavedAt, cSavedEF, cpc>>
pvars == <<ppc, pmain, pstats>>
ovars == <<omode, opc, oi, ostarted, opipe, oraised>>
vars == <<prog, mkt, rvars, fvars, kvars, cvars, pvars, ovars>>

----------------------------------------------------------------------------
(* Bounds of the model *)
MaxDay == 1
MaxQueries == 2
MaxRuns == 3
MaxClock == 2
MaxFetchRuns == 2
MaxKrRuns == 2
MaxTodo == 51

(* Program constants *)
THRESHOLD_CN == 4500
THRESHOLD_HK == 2000
THRESHOLD_US == 3000
THRESHOLD_KR == 2000
MAX_RETRIES_HK == 3
MAX_RETRIES_KR == 3
MAX_WORKERS_HK == 4
MAX_WORKERS_US == 5
MIN_VALID_SIZE == 1000
DATA_EXPIRY_SECONDS == 3600
ATTEMPTS == 2
PACE_EVERY == 100
THREADS == 4
CHECKPOINT_EVERY == 50

Markets == {"cn", "hk", "us", "kr"}

Threshold(m) ==
    CASE m = "cn" -> THRESHOLD_CN
      [] m = "hk" -> THRESHOLD_HK
      [] m = "us" -> THRESHOLD_US
      [] m = "kr" -> THRESHOLD_KR

----------------------------------------------------------------------------
(* Security lists.  A list is abstracted to where it came from, how many   *)
(* entries it has, which primary response it was built from (ver) and the  *)
(* type its code column has: "str" ('005930') or "int" (5930, after a CSV  *)
(* round trip through pandas).                                             *)
NoList == [src |-> "none", n |-> 0, ver |-> 0, form |-> "str"]

PrimaryList(n, v) == [src |-> "primary", n |-> n, ver |-> v, form |-> "str"]

\* the hardcoded last-resort value of each resolver; the US resolver has none
SeedCN == [src |-> "seed", n |-> 3, ver |-> 0, form |-> "str"]
SeedHK == [src |-> "seed", n |-> 0, ver |-> 0, form |-> "str"]
SeedKR == [src |-> "seed", n |-> 1, ver |-> 0, form |-> "str"]

Seed(m) ==
    CASE m = "cn" -> SeedCN
      [] m = "hk" -> SeedHK
      [] m = "kr" -> SeedKR
      [] OTHER -> NoList

\* sizes a primary response may have, around the market's threshold
Sizes(m) == {0, 1, Threshold(m) - 1, Threshold(m), Threshold(m) + 1}

\* `len(x) >= threshold`
MeetsAlways(m, n) == TRUE
MeetsThreshold(m, n) == n >= Threshold(m)

(* The cache file.  kind: "none" (no file), "list" (a complete list),      *)
(* "partial" (a CSV cut short by an interrupted write, still parseable),   *)
(* "corrupt" (unparseable: truncated JSON, zero-byte CSV).                  *)
NoFile == [kind |-> "none", list |-> NoList, mday |-> 0]
CorruptFile(d) == [kind |-> "corrupt", list |-> NoList, mday |-> d]
ListFile(l, d) == [kind |-> "list", list |-> l, mday |-> d]
PartialFile(l, k, d) == [kind |-> "partial", list |-> [l EXCEPT !.n = k], mday |-> d]

Parseable(c) == c.kind \in {"list", "partial"}

\* json.load of a list of strings returns the list that json.dump wrote
ReadJson(c) == c.list
\* pd.read_csv infers the all-digit code column as integers
ReadCsv(c) == [c.list EXCEPT !.form = "int"]

\* step 1 of get_cn_list / get_full_stock_list: the file is from today, parses,
\* and holds at least threshold entries
SameDayHit(m) ==
    /\ cache.kind # "none"
    /\ cache.mday = today
    /\ Parseable(cache)
    /\ MeetsThreshold(m, ReadJson(cache).n)

----------------------------------------------------------------------------
(* List resolution *)

Return(l) ==
    /\ ret' = l
    /\ rpc' = "done"

\* lines 38-49 of downloader_cn.py
CN_SameDayCache ==
    /\ prog = "resolve" /\ mkt = "cn" /\ rpc = "start"
    /\ IF SameDayHit("cn")
         THEN Return(ReadJson(cache))
         ELSE rpc' = "query" /\ ret' = ret
    /\ UNCHANGED <<ovars, fvars, kvars, cvars, pvars, prog, mkt, today, cache, tries, cand, qseq, runs, rstart, nq, metT>>

\* lines 51-60 of downloader_hk.py
HK_SameDayCache ==
    /\ prog = "resolve" /\ mkt = "hk" /\ rpc = "start"
    /\ IF SameDayHit("hk")
         THEN Return(ReadJson(cache))
         ELSE rpc' = "query" /\ ret' = ret
    /\ UNCHANGED <<ovars, fvars, kvars, cvars, pvars, prog, mkt, today, cache, tries, cand, qseq, runs, rstart, nq, metT>>

\* lines 41-50 of downloader_us.py
US_SameDayCache ==
    /\ prog = "resolve" /\ mkt = "us" /\ rpc = "start"
    /\ IF SameDayHit("us")
         THEN Return(ReadJson(cache))
         ELSE rpc' = "query" /\ ret' = ret
    /\ UNCHANGED <<ovars, fvars, kvars, cvars, pvars, prog, mkt, today, cache, tries, cand, qseq, runs, rstart, nq, metT>>

\* The primary registry answers with n entries (a new response, numbered qseq+1).
Answer(n) ==
    /\ qseq < MaxQueries
    /\ qseq' = qseq + 1
    /\ cand' = PrimaryList(n, qseq + 1)

\* lines 52-69 of downloader_cn.py: one try block around both EM queries
CN_Query ==
    /\ prog = "resolve" /\ mkt = "cn" /\ rpc = "query"
    /\ nq' = nq + 1
    /\ \/ \* an exception anywhere in the try block
          /\ rpc' = "fallback"
          /\ UNCHANGED <<cand, qseq, metT>>
       \/ \E n \in Sizes("cn") :
            /\ Answer(n)
            /\ IF MeetsThreshold("cn", n)
                 THEN rpc' = "write" /\ metT' = TRUE
                 ELSE rpc' = "fallback" /\ metT' = metT
    /\ UNCHANGED <<ovars, fvars, kvars, cvars, pvars, prog, mkt, today, cache, tries, ret, runs, rstart>>

\* what follows a failed attempt of a retry loop: `if i < max_retries - 1: sleep`
AfterFailedAttempt(maxRetries) ==
    /\ tries' = tries + 1
    /\ rpc' = IF tries + 1 < maxRetries THEN "query" ELSE "fallback"

\* lines 65-102 of downloader_hk.py: one iteration of the retry loop
HK_Attempt ==
    /\ prog = "resolve" /\ mkt = "hk" /\ rpc = "query"
    /\ tries < MAX_RETRIES_HK
    /\ nq' = nq + 1
    /\ \/ /\ AfterFailedAttempt(MAX_RETRIES_HK)
          /\ UNCHANGED <<cand, qseq, metT>>
       \/ \E n \in Sizes("hk") :
            /\ Answer(n)
            /\ IF MeetsThreshold("hk", n)
                 THEN rpc' = "write" /\ metT' = TRUE /\ tries' = tries
                 ELSE AfterFailedAttempt(MAX_RETRIES_HK) /\ metT' = metT
    /\ UNCHANGED <<ovars, fvars, kvars, cvars, pvars, prog, mkt, today, cache, ret, runs, rstart>>

\* lines 64-86 of downloader_kr.py: one iteration of the retry loop
KR_Attempt ==
    /\ prog = "resolve" /\ mkt = "kr" /\ rpc = "query"
    /\ tries < MAX_RETRIES_KR
    /\ nq' = nq + 1
    /\ \/ /\ AfterFailedAttempt(MAX_RETRIES_KR)
          /\ UNCHANGED <<cand, qseq, metT>>
       \/ \E n \in Sizes("kr") :
            /\ Answer(n)
            /\ IF MeetsThreshold("kr", n)
                 THEN rpc' = "write" /\ metT' = TRUE /\ tries' = tries
                 ELSE AfterFailedAttempt(MAX_RETRIES_KR) /\ metT' = metT
    /\ UNCHANGED <<ovars, fvars, kvars, cvars, pvars, prog, mkt, today, cache, ret, runs, rstart>>

\* sizes one symbol directory (nasdaqlisted / otherlisted) may contribute
SiteSizes == {0, 1, THRESHOLD_US - 1, THRESHOLD_US}

\* lines 54-69 of downloader_us.py: one iteration of the loop over the two
\* sites; a failing site is logged and skipped, the rows of the other are kept
US_Site ==
    /\ prog = "resolve" /\ mkt = "us" /\ rpc = "query"
    /\ tries < 2
    /\ nq' = nq + 1
    /\ tries' = tries + 1
    /\ rpc' = IF tries + 1 < 2 THEN "query" ELSE "decide"
    /\ \/ UNCHANGED <<cand, qseq>>
       \/ \E n \in SiteSizes :
            /\ qseq < MaxQueries
            /\ qseq' = qseq + 1
            /\ cand' = PrimaryList(cand.n + n, qseq + 1)
    /\ UNCHANGED <<ovars, fvars, kvars, cvars, pvars, prog, mkt, today, cache, ret, runs, rstart, metT>>

\* lines 71-77 of downloader_us.py: final_list is returned on both branches
US_Decide ==
    /\ prog = "resolve" /\ mkt = "us" /\ rpc = "decide"
    /\ IF MeetsThreshold("us", cand.n)
         THEN rpc' = "write" /\ metT' = TRUE /\ ret' = ret
         ELSE Return(IF cand.src = "none" THEN PrimaryList(0, 0) ELSE cand)
              /\ metT' = metT
    /\ UNCHANGED <<ovars, fvars, kvars, cvars, pvars, prog, mkt, today, cache, tries, cand, qseq, runs, rstart, nq>>

\* open(CACHE_LIST_PATH, "w") / to_csv: the file is truncated first ...
CacheWriteBegin ==
    /\ prog = "resolve" /\ rpc = "write"
    /\ cache' = CorruptFile(today)
    /\ rpc' = "writing"
    /\ UNCHANGED <<ovars, fvars, kvars, cvars, pvars, prog, mkt, today, tries, cand, ret, qseq, runs, rstart, nq, metT>>

\* ... then the whole list is written and the fresh list is returned
CacheWriteEnd ==
    /\ prog = "resolve" /\ rpc = "writing"
    /\ cache' = ListFile(cand, today)
    /\ Return(cand)
    /\ UNCHANGED <<ovars, fvars, kvars, cvars, pvars, prog, mkt, today, tries, cand, qseq, runs, rstart, nq, metT>>

\* lines 72-78 of downloader_cn.py
CN_Fallback ==
    /\ prog = "resolve" /\ mkt = "cn" /\ rpc = "fallback"
    /\ IF cache.kind # "none"
         THEN IF Parseable(cache)
                THEN Return(ReadJson(cache))
                ELSE rpc' = "raised" /\ ret' = ret
         ELSE Return(SeedCN)
    /\ UNCHANGED <<ovars, fvars, kvars, cvars, pvars, prog, mkt, today, cache, tries, cand, qseq, runs, rstart, nq, metT>>

\* lines 104-108 of downloader_hk.py
HK_Fallback ==
    /\ prog = "resolve" /\ mkt = "hk" /\ rpc = "fallback"
    /\ IF cache.kind # "none"
         THEN IF Parseable(cache)
                THEN Return(ReadJson(cache))
                ELSE rpc' = "raised" /\ ret' = ret
         ELSE Return(SeedHK)
    /\ UNCHANGED <<ovars, fvars, kvars, cvars, pvars, prog, mkt, today, cache, tries, cand, qseq, runs, rstart, nq, metT>>

\* lines 88-93 of downloader_kr.py
KR_Fallback ==
    /\ prog = "resolve" /\ mkt = "kr" /\ rpc = "fallback"
    /\ IF cache.kind # "none"
         THEN IF Parseable(cache)
                THEN Return(ReadCsv(cache))
                ELSE rpc' = "raised" /\ ret' = ret
         ELSE Return(SeedKR)
    /\ UNCHANGED <<ovars, fvars, kvars, cvars, pvars, prog, mkt, today, cache, tries, cand, qseq, runs, rstart, nq, metT>>

\* The process is terminated from outside.  A write in progress leaves the
\* file cut short: truncated JSON never parses; a truncated CSV is either
\* empty (unparseable) or a shorter table.
Interrupt ==
    /\ prog = "resolve" /\ rpc \notin {"done", "raised", "killed"}
    /\ rpc' = "killed"
    /\ IF rpc = "writing" /\ mkt = "kr"
         THEN \E k \in {0, 1, cand.n - 1} :
                cache' = IF k = 0 THEN CorruptFile(today)
                                  ELSE PartialFile(cand, k, today)
         ELSE cache' = cache
    /\ UNCHANGED <<ovars, fvars, kvars, cvars, pvars, prog, mkt, today, tries, cand, ret, qseq, runs, rstart, nq, metT>>

\* the script is started again (the next scheduled run)
NewResolution ==
    /\ prog = "resolve" /\ rpc \in {"done", "raised", "killed"}
    /\ runs < MaxRuns
    /\ runs' = runs + 1
    /\ rpc' = IF mkt = "kr" THEN "query" ELSE "start"
    /\ tries' = 0
    /\ cand' = NoList
    /\ ret' = NoList
    /\ rstart' = cache
    /\ nq' = 0
    /\ metT' = FALSE
    /\ UNCHANGED <<ovars, fvars, kvars, cvars, pvars, prog, mkt, today, cache, qseq>>

\* midnight passes
NextDay ==
    /\ prog = "resolve"
    /\ today < MaxDay
    /\ today' = today + 1
    /\ UNCHANGED <<ovars, fvars, kvars, cvars, pvars, prog, mkt, cache, rpc, tries, cand, ret, qseq, runs, rstart, nq, metT>>

----------------------------------------------------------------------------
(* The HK / US pool run *)

Secs == {"AAA", "BBB"}

\* an output artifact: exists or not, its size in bytes, whether it holds the
\* whole fetched series, and its modification time
NoArt == [ex |-> FALSE, size |-> 0, whole |-> FALSE, mt |-> 0]
WholeArt(sz, t) == [ex |-> TRUE, size |-> sz, whole |-> TRUE, mt |-> t]
CutArt(sz, t) == [ex |-> TRUE, size |-> sz, whole |-> FALSE, mt |-> t]

\* sizes a complete artifact may have, around the minimum valid size
WrittenSizes == {MIN_VALID_SIZE, MIN_VALID_SIZE + 1}
\* sizes of an artifact whose write stopped half way
CutSizes == {0, MIN_VALID_SIZE + 1}

\* time.time() - os.path.getmtime(out_path), in seconds
FileAge(f, t) == (t - f.mt) * (DATA_EXPIRY_SECONDS \div 2)

\* line 117 of downloader_hk.py
FreshHK(f) == f.ex /\ f.size > MIN_VALID_SIZE
\* lines 88-92 of downloader_us.py
FreshUS(f, t) == f.ex /\ FileAge(f, t) < DATA_EXPIRY_SECONDS /\ f.size > MIN_VALID_SIZE

\* a download_stock_data call: pc, loop variable attempt, returned status,
\* the provider requests it issued, what happened in order (provider outcomes
\* and sleeps), and the artifact and clock it found when it started
IdleJob == [pc |-> "idle", att |-> 0, res |-> "none", fetches |-> 0,
            log |-> <<>>, f0 |-> NoArt, t0 |-> 0]

ZeroStats == [success |-> 0, exists |-> 0, empty |-> 0, error |-> 0]
NoRunStats == [total |-> -1, success |-> -1, fail |-> -1, ratio |-> -1]

\* main.py, run_market_pipeline: `stats = None` (line 26) before main() is called
NoStats == [kind |-> "None", total |-> 0, success |-> 0, fail |-> 0]
\* a {"total", "success", "fail"} dictionary
StatsDict(t, sc, f) == [kind |-> "dict", total |-> t, success |-> sc, fail |-> f]
PipelineStart == ppc' = "step1" /\ pmain' = "running" /\ pstats' = NoStats
\* the process is gone
PipelineKilled == ppc' = "killed" /\ pmain' = "killed" /\ pstats' = NoStats
\* run_market_pipeline has returned, or the process was terminated
PipelineOver == ppc \in {"sent", "skipped", "failed", "killed"}

MaxWorkers == IF mkt = "hk" THEN MAX_WORKERS_HK ELSE MAX_WORKERS_US

Busy == {s \in Secs : job[s].pc \in {"fetch", "write", "writing"}}

JobReturns(j, status) == [j EXCEPT !.pc = "ret", !.res = status]

\* the end of one pass through `for attempt in range(2)` that did not return:
\* the next attempt, or `return {"status": "empty"}` after the last
NextAttemptOneMore(j) ==
    IF j.att + 1 < ATTEMPTS + 1
      THEN [j EXCEPT !.pc = "fetch", !.att = j.att + 1]
      ELSE JobReturns([j EXCEPT !.att = j.att + 1], "empty")
NextAttempt(j) ==
    IF j.att + 1 < ATTEMPTS
      THEN [j EXCEPT !.pc = "fetch", !.att = j.att + 1]
      ELSE JobReturns([j EXCEPT !.att = j.att + 1], "empty")

\* the outer `except: return {"status": "error"}` around the whole function
OnPreludeError(j) == JobReturns([j EXCEPT !.log = <<"prelude_raise">>], "error")

\* what the except clause and the rest of the loop body do after a pass
\* that did not return: HK sleeps 2-5 s only in the bare except; US sleeps
\* 20-40 s when the error text says "Rate limited" and 2-4 s after every pass
AfterPassHK(j, outcome) ==
    NextAttempt([j EXCEPT !.log = IF outcome \in {"raise", "ratelimit"}
                                    THEN Append(j.log, "sleep_short")
                                    ELSE j.log])
AfterPassUS(j, outcome) ==
    NextAttempt([j EXCEPT !.log = IF outcome = "ratelimit"
                                    THEN j.log \o <<"sleep_long", "sleep_short">>
                                    ELSE Append(j.log, "sleep_short")])
AfterPass(j, outcome) ==
    IF mkt = "hk" THEN AfterPassHK(j, outcome) ELSE AfterPassUS(j, outcome)

\* a worker of the pool picks up the job: lines 112-121 of downloader_hk.py
HK_JobStart(s) ==
    /\ prog = "fetch" /\ mkt = "hk" /\ mpc = "pool"
    /\ job[s].pc = "queued"
    /\ Cardinality(Busy) < MAX_WORKERS_HK
    /\ LET j == [job[s] EXCEPT !.f0 = art[s], !.t0 = clk] IN
         \/ \* an exception before the attempt loop: the outer bare except
            job' = [job EXCEPT ![s] = OnPreludeError(j)]
         \/ job' = [job EXCEPT ![s] =
                IF FreshHK(art[s]) THEN JobReturns(j, "exists")
                                   ELSE [j EXCEPT !.pc = "fetch"]]
    /\ UNCHANGED <<ovars, prog, mkt, pvars, rvars, kvars, cvars, items, art, clk, mpc, got, stats, rstats, pauses, fruns>>

\* lines 80-95 of downloader_us.py
US_JobStart(s) ==
    /\ prog = "fetch" /\ mkt = "us" /\ mpc = "pool"
    /\ job[s].pc = "queued"
    /\ Cardinality(Busy) < MAX_WORKERS_US
    /\ LET j == [job[s] EXCEPT !.f0 = art[s], !.t0 = clk] IN
         \/ job' = [job EXCEPT ![s] = OnPreludeError(j)]
         \/ job' = [job EXCEPT ![s] =
                IF FreshUS(art[s], clk) THEN JobReturns(j, "exists")
                                        ELSE [j EXCEPT !.pc = "fetch"]]
    /\ UNCHANGED <<ovars, prog, mkt, pvars, rvars, kvars, cvars, items, art, clk, mpc, got, stats, rstats, pauses, fruns>>

\* what a provider request can do: return rows, return nothing, raise, raise
\* with "Rate limited" in the message (only the US code tells these two apart)
ProviderOutcomes == {"rows", "empty", "raise", "ratelimit"}

\* one tk.history(...) request and what the loop body does with its outcome:
\* lines 124-135 of downloader_hk.py, lines 98-111 of downloader_us.py
JobAttempt(s) ==
    /\ prog = "fetch" /\ mpc = "pool"
    /\ job[s].pc = "fetch"
    /\ \E o \in ProviderOutcomes :
         LET j == [job[s] EXCEPT !.fetches = job[s].fetches + 1,
                                 !.log = Append(job[s].log, o)] IN
         job' = [job EXCEPT ![s] =
                    IF o = "rows" THEN [j EXCEPT !.pc = "write"]
                                  ELSE AfterPass(j, o)]
    /\ UNCHANGED <<ovars, prog, mkt, pvars, rvars, kvars, cvars, items, art, clk, mpc, got, stats, rstats, pauses, fruns>>

\* hist.to_csv(out_path, ...): the file is opened for writing (truncated) ...
JobWriteBegin(s) ==
    /\ prog = "fetch" /\ mpc = "pool"
    /\ job[s].pc = "write"
    /\ art' = [art EXCEPT ![s] = CutArt(0, clk)]
    /\ job' = [job EXCEPT ![s].pc = "writing"]
    /\ UNCHANGED <<ovars, prog, mkt, pvars, rvars, kvars, cvars, items, clk, mpc, got, stats, rstats, pauses, fruns>>

\* ... and the rows are written: the job returns success; or the write raises
\* part way, after some rows reached the file (the inner except swallows it
\* and the loop goes on)
JobWriteEnd(s) ==
    /\ prog = "fetch" /\ mpc = "pool"
    /\ job[s].pc = "writing"
    /\ \/ \E sz \in WrittenSizes :
            /\ art' = [art EXCEPT ![s] = WholeArt(sz, clk)]
            /\ job' = [job EXCEPT ![s] = JobReturns(job[s], "success")]
       \/ /\ art' = [art EXCEPT ![s] = CutArt(MIN_VALID_SIZE + 1, clk)]
            /\ job' = [job EXCEPT ![s] =
                  AfterPass([job[s] EXCEPT !.log = Append(job[s].log, "raise")], "raise")]
    /\ UNCHANGED <<ovars, prog, mkt, pvars, rvars, kvars, cvars, items, clk, mpc, got, stats, rstats, pauses, fruns>>

\* lines 142-153 of downloader_hk.py, 117-128 of downloader_us.py: the early
\* return on an empty list, else every item is submitted to the pool
NoItemsNever(it) == FALSE
\* `if not items:`
NoItems(it) == it = {}

MainStart ==
    /\ prog = "fetch" /\ mpc = "start"
    /\ IF NoItems(items)
         THEN /\ rstats' = [total |-> 0, success |-> 0, fail |-> 0, ratio |-> -1]
              /\ mpc' = "returned"
              /\ job' = job
         ELSE /\ job' = [s \in Secs |-> IF s \in items
                                          THEN [IdleJob EXCEPT !.pc = "queued"]
                                          ELSE IdleJob]
              /\ mpc' = "pool"
              /\ rstats' = rstats
    /\ UNCHANGED <<ovars, prog, mkt, pvars, rvars, kvars, cvars, items, art, clk, got, stats, pauses, fruns>>

Bump(st, status) == [st EXCEPT ![status] = st[status] + 1]

\* `(stats["success"] + stats["exists"]) % 100 == 0` (HK only)
PaceNow(st) == mkt = "hk" /\ (st.success + st.exists) % PACE_EVERY = 0

\* one pass of `for future in as_completed(futures)`: lines 155-162 of
\* downloader_hk.py, 129-132 of downloader_us.py
MainCollect(s) ==
    /\ prog = "fetch" /\ mpc = "pool"
    /\ job[s].pc = "ret" /\ s \notin got
    /\ got' = got \cup {s}
    /\ IF job[s].res = "raised"
         THEN \* future.result() re-raises what the job raised: main dies
              mpc' = "crashed" /\ UNCHANGED <<stats, pauses>>
         ELSE /\ stats' = Bump(stats, job[s].res)
              /\ pauses' = IF PaceNow(stats') THEN pauses + 1 ELSE pauses
              /\ mpc' = mpc
    /\ UNCHANGED <<ovars, prog, mkt, pvars, rvars, kvars, cvars, items, art, clk, job, rstats, fruns>>

FailCountNoEmpty(st) == st.error
FailCount(st) == st.error + st.empty
SuccessCount(st) == st.success + st.exists

\* lines 166-185 of downloader_hk.py, 135-152 of downloader_us.py
MainSummary ==
    /\ prog = "fetch" /\ mpc = "pool"
    /\ got = items
    /\ IF Cardinality(items) = 0
         THEN \* (effective_success/total_expected) raises ZeroDivisionError
              mpc' = "crashed" /\ rstats' = rstats
         ELSE /\ rstats' = [total |-> Cardinality(items),
                            success |-> SuccessCount(stats),
                            fail |-> FailCount(stats),
                            ratio |-> (SuccessCount(stats) * 100) \div Cardinality(items)]
              /\ mpc' = "returned"
    /\ UNCHANGED <<ovars, prog, mkt, pvars, rvars, kvars, cvars, items, art, clk, job, got, stats, pauses, fruns>>

\* the memory of a process that is gone
FetchMemoryLost ==
    /\ job' = [s \in Secs |-> IdleJob]
    /\ got' = {}
    /\ stats' = ZeroStats
    /\ pauses' = 0

\* the process is terminated from outside while the pool runs; an artifact
\* being written stays cut short, at whatever size the write had reached
FetchInterrupt ==
    /\ prog = "fetch" /\ mpc = "pool"
    /\ mpc' = "killed"
    /\ PipelineKilled
    /\ \E sz \in CutSizes :
         art' = [s \in Secs |-> IF job[s].pc = "writing" THEN CutArt(sz, clk) ELSE art[s]]
    /\ FetchMemoryLost
    /\ UNCHANGED <<ovars, prog, mkt, rvars, kvars, cvars, items, clk, rstats, fruns>>

\* the script is started again on the same data directory
NewFetchRun ==
    /\ prog = "fetch" /\ PipelineOver
    /\ fruns < MaxFetchRuns
    /\ fruns' = fruns + 1
    /\ mpc' = "start"
    /\ FetchMemoryLost
    /\ rstats' = NoRunStats
    /\ PipelineStart
    /\ UNCHANGED <<ovars, prog, mkt, rvars, kvars, cvars, items, art, clk>>

\* time passes between two runs (only the US freshness check reads the clock)
ClockTick ==
    /\ prog = "fetch" /\ mkt = "us" /\ PipelineOver
    /\ clk < MaxClock
    /\ clk' = clk + 1
    /\ UNCHANGED <<ovars, prog, mkt, pvars, rvars, kvars, cvars, items, art, job, mpc, got, stats, rstats, pauses, fruns>>

----------------------------------------------------------------------------
(* The KR manifest-driven run *)

\* ticker codes are strings of six digits; '005930' is the seed's code
KCodeA == <<0, 0, 5, 9, 3, 0>>
KCodeB == <<3, 7, 3, 2, 2, 0>>

RECURSIVE StripZeros(_)
\* the decimal digits of int(text)
StripZeros(d) == IF Len(d) > 1 /\ d[1] = 0 THEN StripZeros(Tail(d)) ELSE d

\* a value of the code column: a string, or an integer (kept as its digits)
StrCode(d) == [t |-> "str", d |-> d]
\* pd.read_csv reads an all-digit column as integers: leading zeros are lost
ParseCode(text) == [t |-> "int", d |-> StripZeros(text)]
\* str(code), as used in f"{code}.{board}.csv" and in astype(str)
CodeStr(c) == c.d

\* the lists get_kr_list can hand to main: the seed, a list from the primary
\* registry (codes are strings), the same list read back from LIST_ALL_CSV
KListSeed == <<[code |-> StrCode(KCodeA), board |-> "KS"]>>
KListPrimary == <<[code |-> StrCode(KCodeA), board |-> "KS"],
                  [code |-> StrCode(KCodeB), board |-> "KS"]>>
KListHist == [i \in 1..Len(KListPrimary) |->
                [KListPrimary[i] EXCEPT !.code = ParseCode(KListPrimary[i].code.d)]]
\* ... and read back from a LIST_ALL_CSV whose last line was cut short by an
\* interrupted to_csv: pd.read_csv fills the missing fields with NaN
KListCut == [KListHist EXCEPT ![Len(KListHist)].board = "nan"]
KLists == {KListSeed, KListPrimary, KListHist, KListCut}

KIdx == 1..Len(KListPrimary)

\* the files download_one can create in DATA_DIR: <<code text, board>>
KFileNames == {<<d, "KS">> : d \in {KCodeA, StripZeros(KCodeA), KCodeB}}

\* bytes in a file of DATA_DIR: a cut file is the file as the open for writing
\* left it, before any row reached it; a whole series is above the minimum
KFileBytes(f) == IF f = "whole" THEN MIN_VALID_SIZE + 1 ELSE 0

\* out_path of a row: f"{code}.{board}.csv"
OutName(row) == <<CodeStr(row.code), row.board>>

\* the manifest file: absent, a table, or unparseable (zero bytes)
NoManifest == [kind |-> "none", rows |-> <<>>]
CorruptManifest == [kind |-> "corrupt", rows |-> <<>>]

\* mf.to_csv(MANIFEST_CSV, index=False): every value is written as text
ToCsv(mf) ==
    [kind |-> "table",
     rows |-> [i \in 1..Len(mf) |->
                 [code |-> CodeStr(mf[i].code), board |-> mf[i].board,
                  status |-> mf[i].status]]]

\* pd.read_csv(MANIFEST_CSV)
FromCsv(file) ==
    [i \in 1..Len(file.rows) |->
        [code |-> ParseCode(file.rows[i].code), board |-> file.rows[i].board,
         status |-> file.rows[i].status]]

\* a line of the file that was cut after its first field
CutRow(r) == [code |-> r.code, board |-> "nan", status |-> "nan"]

\* what an interrupted to_csv of table t can leave behind: nothing, whole
\* lines only, or whole lines and one cut line
CutTables(t) ==
    {CorruptManifest} \cup
    {[kind |-> "table", rows |-> SubSeq(t.rows, 1, k)] : k \in 0..(Len(t.rows) - 1)} \cup
    {[kind |-> "table", rows |-> Append(SubSeq(t.rows, 1, k - 1), CutRow(t.rows[k]))] :
        k \in 1..Len(t.rows)}

\* lines 100-107: every row pending, then done where a file <code>.<board>.csv exists
ScanRow(row, files) ==
    [code |-> row.code, board |-> row.board,
     status |-> IF row.board # "nan" /\ files[OutName(row)] # "none"
                  THEN "done" ELSE "pending"]

SeedPending(list) ==
    [i \in 1..Len(list) |->
        [code |-> list[i].code, board |-> list[i].board, status |-> "pending"]]

\* build_manifest: the manifest it returns and the manifest file it leaves
BuildPersistBeforeScan(list, files, disk) ==
    IF disk.kind # "none"
      THEN [mf |-> FromCsv(disk), disk |-> disk]
      ELSE [mf |-> [i \in 1..Len(list) |-> ScanRow(list[i], files)],
            disk |-> ToCsv(SeedPending(list))]
BuildIgnoresPersisted(list, files, disk) ==
    LET m == [i \in 1..Len(list) |-> ScanRow(list[i], files)]
    IN [mf |-> m, disk |-> ToCsv(m)]
BuildManifest(list, files, disk) ==
    IF disk.kind # "none"
      THEN [mf |-> FromCsv(disk), disk |-> disk]
      ELSE LET m == [i \in 1..Len(list) |-> ScanRow(list[i], files)]
           IN [mf |-> m, disk |-> ToCsv(m)]

\* todo = mf[mf["status"] != "done"], as the index labels of its rows
TodoPendingOnly(mf) == {i \in 1..Len(mf) : mf[i].status = "pending"}
TodoEverything(mf) == 1..Len(mf)
Todo(mf) == {i \in 1..Len(mf) : mf[i].status # "done"}

\* mf.at[idx, "status"] = status
SetStatusByPosition(mf, todo0, idx, status) ==
    LET p == Cardinality({j \in todo0 : j <= idx})
    IN [mf EXCEPT ![p].status = status]
SetStatus(mf, todo0, idx, status) == [mf EXCEPT ![idx].status = status]

\* a download_one call: pc, returned status, provider requests issued, whether
\* out_path existed when it started, and what happened to it last
IdleKJob == [pc |-> "idle", res |-> "none", fetches |-> 0, had0 |-> FALSE,
             out |-> "none"]

KBusy == {i \in KIdx : kjob[i].pc \in {"write", "writing"}}

\* what download_one returns for what the provider did (lines 124-133)
StatusFor(outcome) ==
    CASE outcome = "rows" -> "done" [] outcome = "empty" -> "empty" [] OTHER -> "failed"

\* line 139: df_list = get_kr_list()
KR_GetList ==
    /\ prog = "kr" /\ kpc = "start"
    /\ klist' \in KLists
    /\ kpc' = "build"
    /\ UNCHANGED <<ovars, prog, mkt, pvars, rvars, fvars, cvars, kmf, kdisk, kfiles, kjob, kdisp, kgot, kcount, kruns>>

\* line 140: mf = build_manifest(df_list); pd.read_csv raises on a zero-byte file
KR_Build ==
    /\ prog = "kr" /\ kpc = "build"
    /\ IF kdisk.kind = "corrupt"
         THEN kpc' = "raised" /\ UNCHANGED <<kmf, kdisk>>
         ELSE LET b == BuildManifest(klist, kfiles, kdisk) IN
              /\ kmf' = b.mf
              /\ kdisk' = b.disk
              /\ kpc' = "built"
    /\ UNCHANGED <<ovars, prog, mkt, pvars, rvars, fvars, cvars, klist, kfiles, kjob, kdisp, kgot, kcount, kruns>>

\* lines 142-154: nothing to do, or every row that is not done is submitted
KR_Select ==
    /\ prog = "kr" /\ kpc = "built"
    /\ IF Todo(kmf) = {}
         THEN kpc' = "returned" /\ UNCHANGED <<kjob, kdisp, kcount>>
         ELSE /\ kdisp' = Todo(kmf)
              /\ kjob' = [i \in KIdx |-> IF i \in Todo(kmf)
                                           THEN [IdleKJob EXCEPT !.pc = "queued"]
                                           ELSE IdleKJob]
              /\ kcount' = 0
              /\ kpc' = "pool"
    /\ UNCHANGED <<ovars, prog, mkt, pvars, rvars, fvars, cvars, klist, kmf, kdisk, kfiles, kgot, kruns>>

\* the with block of main is open: the loop runs, or an exception is on its
\* way out and ThreadPoolExecutor.__exit__ waits for the submitted jobs
KPoolOpen == kpc \in {"pool", "unwinding"}

\* download_one, lines 114-117, outside the try: map_symbol_kr calls
\* board.upper(), which raises AttributeError when board is NaN
KR_JobPreludeRaise(i) ==
    /\ prog = "kr" /\ KPoolOpen
    /\ kjob[i].pc = "queued"
    /\ Cardinality(KBusy) < THREADS
    /\ kmf[i].board = "nan"
    /\ kjob' = [kjob EXCEPT ![i] = [@ EXCEPT !.pc = "ret", !.res = "raised",
                                             !.out = "prelude_raise"]]
    /\ UNCHANGED <<ovars, prog, mkt, pvars, rvars, fvars, cvars, klist, kmf, kdisk, kfiles, kdisp, kgot, kcount, kpc, kruns>>

\* download_one, lines 114-131: no look at out_path before the request
KR_JobFetch(i) ==
    /\ prog = "kr" /\ KPoolOpen
    /\ kjob[i].pc = "queued"
    /\ kmf[i].board # "nan"
    /\ Cardinality(KBusy) < THREADS
    /\ \E o \in {"rows", "empty", "raise"} :
         LET j == [kjob[i] EXCEPT !.fetches = kjob[i].fetches + 1,
                                  !.had0 = kfiles[OutName(kmf[i])] # "none",
                                  !.out = o] IN
         kjob' = [kjob EXCEPT ![i] =
                    IF o = "rows" THEN [j EXCEPT !.pc = "write"]
                                  ELSE [j EXCEPT !.pc = "ret", !.res = StatusFor(o)]]
    /\ UNCHANGED <<ovars, prog, mkt, pvars, rvars, fvars, cvars, klist, kmf, kdisk, kfiles, kdisp, kgot, kcount, kpc, kruns>>

\* line 129, df.to_csv(out_path): the file is opened (truncated) ...
KR_JobWriteBegin(i) ==
    /\ prog = "kr" /\ KPoolOpen
    /\ kjob[i].pc = "write"
    /\ kfiles' = [kfiles EXCEPT ![OutName(kmf[i])] = "cut"]
    /\ kjob' = [kjob EXCEPT ![i].pc = "writing"]
    /\ UNCHANGED <<ovars, prog, mkt, pvars, rvars, fvars, cvars, klist, kmf, kdisk, kdisp, kgot, kcount, kpc, kruns>>

\* ... and written: done; or the write raises part way: failed (line 132)
KR_JobWriteEnd(i) ==
    /\ prog = "kr" /\ KPoolOpen
    /\ kjob[i].pc = "writing"
    /\ \/ /\ kfiles' = [kfiles EXCEPT ![OutName(kmf[i])] = "whole"]
          /\ kjob' = [kjob EXCEPT ![i] = [@ EXCEPT !.pc = "ret", !.res = StatusFor("rows")]]
       \/ /\ kfiles' = kfiles
          /\ kjob' = [kjob EXCEPT ![i] = [@ EXCEPT !.pc = "ret", !.out = "raise",
                                                   !.res = StatusFor("raise")]]
    /\ UNCHANGED <<ovars, prog, mkt, pvars, rvars, fvars, cvars, klist, kmf, kdisk, kdisp, kgot, kcount, kpc, kruns>>

\* one pass of `for f in as_completed(futures)`, lines 155-163; f.result()
\* raises again what the job raised
KR_Collect(i) ==
    /\ prog = "kr" /\ kpc = "pool"
    /\ kjob[i].pc = "ret" /\ i \notin kgot
    /\ IF kjob[i].res = "raised"
         THEN /\ kpc' = "unwinding"
              /\ UNCHANGED <<kgot, kmf, kcount, kdisk>>
         ELSE /\ kgot' = kgot \cup {i}
              /\ kmf' = SetStatus(kmf, kdisp, i, kjob[i].res)
              /\ kcount' = kcount + 1
              /\ kdisk' = IF (kcount + 1) % CHECKPOINT_EVERY = 0 THEN ToCsv(kmf') ELSE kdisk
              /\ kpc' = kpc
    /\ UNCHANGED <<ovars, prog, mkt, pvars, rvars, fvars, cvars, klist, kfiles, kjob, kdisp, kruns>>

\* line 150: leaving the with block on an exception waits for every submitted
\* job, then main dies of the exception; line 167 is not reached
KR_Crash ==
    /\ prog = "kr" /\ kpc = "unwinding"
    /\ \A i \in kdisp : kjob[i].pc = "ret"
    /\ kpc' = "crashed"
    /\ UNCHANGED <<ovars, prog, mkt, pvars, rvars, fvars, cvars, klist, kmf, kdisk, kfiles, kjob, kdisp, kgot, kcount, kruns>>

\* lines 165-169: the pool is drained, the manifest is saved, main returns
KR_Finish ==
    /\ prog = "kr" /\ kpc = "pool"
    /\ kgot = kdisp
    /\ kdisk' = ToCsv(kmf)
    /\ kpc' = "returned"
    /\ UNCHANGED <<ovars, prog, mkt, pvars, rvars, fvars, cvars, klist, kmf, kfiles, kjob, kdisp, kgot, kcount, kruns>>

\* the memory of a process that is gone
KrMemoryLost ==
    /\ klist' = <<>>
    /\ kmf' = <<>>
    /\ kjob' = [i \in KIdx |-> IdleKJob]
    /\ kdisp' = {}
    /\ kgot' = {}
    /\ kcount' = 0

\* the process is terminated from outside; artifacts being written stay cut
KR_Interrupt ==
    /\ prog = "kr" /\ kpc \in {"build", "built", "pool", "unwinding"}
    /\ kpc' = "killed"
    /\ KrMemoryLost
    /\ PipelineKilled
    /\ UNCHANGED <<ovars, prog, mkt, rvars, fvars, cvars, kdisk, kfiles, kruns>>

\* ... terminated during the final mf.to_csv: the manifest file stays cut short
KR_InterruptInSave ==
    /\ prog = "kr" /\ kpc = "pool"
    /\ kgot = kdisp
    /\ kdisk' \in CutTables(ToCsv(kmf))
    /\ kpc' = "killed"
    /\ KrMemoryLost
    /\ PipelineKilled
    /\ UNCHANGED <<ovars, prog, mkt, rvars, fvars, cvars, kfiles, kruns>>

\* the operator deletes MANIFEST_CSV between two runs to force a rebuild
KR_RemoveManifest ==
    /\ prog = "kr" /\ PipelineOver
    /\ kdisk.kind # "none"
    /\ kdisk' = NoManifest
    /\ UNCHANGED <<ovars, prog, mkt, pvars, rvars, fvars, cvars, klist, kmf, kfiles, kjob, kdisp, kgot, kcount, kpc, kruns>>

\* the script is started again on the same directories
KR_NewRun ==
    /\ prog = "kr" /\ PipelineOver
    /\ kruns < MaxKrRuns
    /\ kruns' = kruns + 1
    /\ kpc' = "start"
    /\ KrMemoryLost
    /\ PipelineStart
    /\ UNCHANGED <<ovars, prog, mkt, rvars, fvars, cvars, kdisk, kfiles>>

----------------------------------------------------------------------------
(* run_market_pipeline of main.py: step 1 calls the market's main() *)

\* lines 34-37: stats = downloader_us.main() / downloader_hk.main() returned;
\* the frame of main is gone, the dictionary it returned is bound to stats
Pipeline_FetchReturns ==
    /\ prog = "fetch" /\ mpc = "returned" /\ ppc = "step1"
    /\ pstats' = StatsDict(rstats.total, rstats.success, rstats.fail)
    /\ pmain' = "returned"
    /\ ppc' = "step2"
    /\ mpc' = "gone"
    /\ rstats' = NoRunStats
    /\ FetchMemoryLost
    /\ UNCHANGED <<ovars, prog, mkt, rvars, kvars, cvars, items, art, clk, fruns>>

\* what downloader_kr.main returns: a bare `return` at line 145, the end of
\* the function body after line 169
KrMainValue == NoStats

\* lines 42-43: stats = downloader_kr.main() returned
Pipeline_KrReturns ==
    /\ prog = "kr" /\ kpc = "returned" /\ ppc = "step1"
    /\ pstats' = KrMainValue
    /\ pmain' = "returned"
    /\ ppc' = "step2"
    /\ kpc' = "gone"
    /\ KrMemoryLost
    /\ UNCHANGED <<ovars, prog, mkt, rvars, fvars, cvars, kdisk, kfiles, kruns>>

\* lines 47-49: downloader_kr.main() raised; the except clause prints and
\* goes on with stats still None
Pipeline_KrRaises ==
    /\ prog = "kr" /\ kpc \in {"raised", "crashed"} /\ ppc = "step1"
    /\ pstats' = pstats
    /\ pmain' = "raised"
    /\ ppc' = "step2"
    /\ kpc' = "gone"
    /\ KrMemoryLost
    /\ UNCHANGED <<ovars, prog, mkt, rvars, fvars, cvars, kdisk, kfiles, kruns>>

\* lines 53-77: the analysis raises, or finds nothing and returns (line 59),
\* or the report is sent with stats=stats (lines 66-72)
Pipeline_Report ==
    /\ prog \in {"fetch", "kr"} /\ ppc = "step2"
    /\ ppc' \in {"failed", "skipped", "sent"}
    /\ UNCHANGED <<ovars, prog, mkt, rvars, fvars, kvars, cvars, pmain, pstats>>

----------------------------------------------------------------------------
(* main of main.py: one pipeline, or all of them in the order of the dict *)

\* lines 97-104: the keys of markets_config in insertion order
MarketsConfig == <<"tw-share", "hk-share", "cn-share", "jp-share", "kr-share", "us-share">>
MarketIds == {MarketsConfig[k] : k \in 1..Len(MarketsConfig)}

\* one call of run_market_pipeline: position, how the download ended, what
\* the analysis gave, what became of the report
NoPipe == [pc |-> "none", id |-> "none", dl |-> "none", an |-> "none", rep |-> "none"]
NewPipe(id) == [NoPipe EXCEPT !.pc = "step1", !.id = id]

\* lines 47-49: `except Exception` around the call of main() prints and falls
\* through to step 2
DownloadExceptionEscapes(p) == [p EXCEPT !.dl = "raise", !.pc = "raised"]
OnDownloadException(p) == [p EXCEPT !.dl = "raise", !.pc = "step2"]

\* lines 75-77: `except Exception` around steps 2 and 3 prints the traceback;
\* the function ends
OnStepException(p) == [p EXCEPT !.pc = "returned"]

\* lines 107-110: the next entry of markets_config.items()
Orch_NextMarket ==
    /\ prog = "all" /\ omode = "all" /\ opc = "loop"
    /\ opipe.pc \in {"none", "returned"}
    /\ oi < Len(MarketsConfig)
    /\ oi' = oi + 1
    /\ ostarted' = Append(ostarted, MarketsConfig[oi + 1])
    /\ opipe' = NewPipe(MarketsConfig[oi + 1])
    /\ UNCHANGED <<prog, mkt, rvars, fvars, kvars, cvars, pvars, omode, opc, oraised>>

\* lines 112-115: only the market named on the command line
Orch_SingleMarket ==
    /\ prog = "all" /\ omode # "all" /\ opc = "loop"
    /\ opipe.pc = "none"
    /\ ostarted' = Append(ostarted, omode)
    /\ opipe' = NewPipe(omode)
    /\ UNCHANGED <<prog, mkt, rvars, fvars, kvars, cvars, pvars, omode, opc, oi, oraised>>

\* lines 30-49: the market's main() returns or raises
Orch_Download ==
    /\ prog = "all" /\ opipe.pc = "step1"
    /\ \/ /\ opipe' = [opipe EXCEPT !.dl = "ok", !.pc = "step2"]
          /\ oraised' = oraised
       \/ /\ opipe' = OnDownloadException(opipe)
          /\ oraised' = oraised \cup {opipe.id}
    /\ UNCHANGED <<prog, mkt, rvars, fvars, kvars, cvars, pvars, omode, opc, oi, ostarted>>

\* lines 53-61: analyzer.run_global_analysis raises, returns an empty
\* report_df (return at line 59), or returns rows
Orch_Analysis ==
    /\ prog = "all" /\ opipe.pc = "step2"
    /\ \/ /\ opipe' = OnStepException([opipe EXCEPT !.an = "raise"])
          /\ oraised' = oraised \cup {opipe.id}
       \/ /\ opipe' = [opipe EXCEPT !.an = "empty", !.pc = "returned"]
          /\ oraised' = oraised
       \/ /\ opipe' = [opipe EXCEPT !.an = "rows", !.pc = "step3"]
          /\ oraised' = oraised
    /\ UNCHANGED <<prog, mkt, rvars, fvars, kvars, cvars, pvars, omode, opc, oi, ostarted>>

\* lines 64-73: notifier.send_stock_report returns or raises
Orch_Report ==
    /\ prog = "all" /\ opipe.pc = "step3"
    /\ \/ /\ opipe' = [opipe EXCEPT !.rep = "sent", !.pc = "returned"]
          /\ oraised' = oraised
       \/ /\ opipe' = OnStepException([opipe EXCEPT !.rep = "raise"])
          /\ oraised' = oraised \cup {opipe.id}
    /\ UNCHANGED <<prog, mkt, rvars, fvars, kvars, cvars, pvars, omode, opc, oi, ostarted>>

\* lines 106-124: main ends, after the loop (or the single call), or at the
\* call of run_market_pipeline an exception came out of (nothing in main
\* catches one)
Orch_Finish ==
    /\ prog = "all" /\ opc = "loop"
    /\ \/ opipe.pc = "raised"
       \/ /\ opipe.pc = "returned"
          /\ omode = "all" => oi = Len(MarketsConfig)
    /\ opc' = IF opipe.pc = "raised" THEN "crashed" ELSE "finished"
    /\ UNCHANGED <<prog, mkt, rvars, fvars, kvars, cvars, pvars, omode, oi, ostarted, opipe, oraised>>

----------------------------------------------------------------------------
(* The KR completion loop with the real checkpoint interval.  The todo rows *)
(* are counted, not named: cN rows were submitted, cCount futures have been *)
(* consumed.                                                                *)

\* rows consumed since the manifest file was last written
SinceSave == cCount - cSavedAt

\* rows whose terminal status is known in memory and that a resumed run would
\* submit again: those not saved yet (the file still says not done) and those
\* saved as empty or failed (todo is every row that is not done)
Redispatched == SinceSave + cSavedEF

\* one pass of the as_completed loop up to `if count % 50 == 0`, lines 155-162.
\* The row ends done, or empty/failed; it differs from the file unless it ends
\* with the empty/failed status the file already had for it.
CK_Complete ==
    /\ prog = "ckpt" /\ cpc = "loop"
    /\ cCount < cN
    /\ cCount' = cCount + 1
    /\ \E kind \in {"done", "same", "other"} :
         /\ cDirty' = cDirty + (IF kind = "same" THEN 0 ELSE 1)
         /\ cSinceEF' = cSinceEF + (IF kind = "done" THEN 0 ELSE 1)
    /\ cpc' = IF (cCount + 1) % CHECKPOINT_EVERY = 0 THEN "save" ELSE "loop"
    /\ UNCHANGED <<ovars, prog, mkt, pvars, rvars, fvars, kvars, cN, cSavedAt, cSavedEF>>

\* line 163: mf.to_csv(MANIFEST_CSV, index=False)
CK_Save ==
    /\ prog = "ckpt" /\ cpc = "save"
    /\ cDirty' = 0
    /\ cSavedAt' = cCount
    /\ cSavedEF' = cSavedEF + cSinceEF
    /\ cSinceEF' = 0
    /\ cpc' = "loop"
    /\ UNCHANGED <<ovars, prog, mkt, pvars, rvars, fvars, kvars, cN, cCount>>

\* line 167: the save at the end of the run
CK_Final ==
    /\ prog = "ckpt" /\ cpc = "loop"
    /\ cCount = cN
    /\ cDirty' = 0
    /\ cSavedAt' = cCount
    /\ cSavedEF' = cSavedEF + cSinceEF
    /\ cSinceEF' = 0
    /\ cpc' = "returned"
    /\ UNCHANGED <<ovars, prog, mkt, pvars, rvars, fvars, kvars, cN, cCount>>

\* the process is terminated between two saves: the file is as last written
CK_Interrupt ==
    /\ prog = "ckpt" /\ cpc = "loop"
    /\ cCount > 0
    /\ cpc' = "killed"
    /\ UNCHANGED <<ovars, prog, mkt, pvars, rvars, fvars, kvars, cN, cCount, cDirty, cSinceEF, cSavedAt, cSavedEF>>

\* the process is terminated inside to_csv: the file was truncated on open and
\* holds only the rows written so far, so `missing` rows of memory are not in it
CK_InterruptInSave ==
    /\ prog = "ckpt" /\ cpc = "save"
    /\ \E missing \in {1, cN} : cDirty' = missing
    /\ cpc' = "killed"
    /\ UNCHANGED <<ovars, prog, mkt, pvars, rvars, fvars, kvars, cN, cCount, cSinceEF, cSavedAt, cSavedEF>>

----------------------------------------------------------------------------
(* Initial states *)

OrchIdle ==
    /\ omode = "off" /\ opc = "off" /\ oi = 0
    /\ ostarted = <<>> /\ opipe = NoPipe /\ oraised = {}

PipelineIdle == ppc = "off" /\ pmain = "off" /\ pstats = NoStats
PipelineInit == ppc = "step1" /\ pmain = "running" /\ pstats = NoStats

FetchIdle ==
    /\ items = {}
    /\ art = [s \in Secs |-> NoArt]
    /\ clk = 0
    /\ job = [s \in Secs |-> IdleJob]
    /\ mpc = "off"
    /\ got = {}
    /\ stats = ZeroStats
    /\ rstats = NoRunStats
    /\ pauses = 0
    /\ fruns = 0

ResolveIdle ==
    /\ today = 0
    /\ cache = NoFile
    /\ rpc = "off"
    /\ tries = 0
    /\ cand = NoList
    /\ ret = NoList
    /\ qseq = 0
    /\ runs = 0
    /\ rstart = NoFile
    /\ nq = 0
    /\ metT = FALSE

KrIdle ==
    /\ klist = <<>>
    /\ kmf = <<>>
    /\ kdisk = NoManifest
    /\ kfiles = [f \in KFileNames |-> "none"]
    /\ kjob = [i \in KIdx |-> IdleKJob]
    /\ kdisp = {}
    /\ kgot = {}
    /\ kcount = 0
    /\ kpc = "off"
    /\ kruns = 0

CkptIdle ==
    /\ cN = 0
    /\ cCount = 0
    /\ cDirty = 0
    /\ cSinceEF = 0
    /\ cSavedAt = 0
    /\ cSavedEF = 0
    /\ cpc = "off"

InitResolve ==
    /\ prog = "resolve"
    /\ mkt \in Markets
    /\ FetchIdle /\ KrIdle /\ CkptIdle /\ PipelineIdle /\ OrchIdle
    /\ today = 0
    /\ cache = NoFile
    /\ rpc = IF mkt = "kr" THEN "query" ELSE "start"
    /\ tries = 0
    /\ cand = NoList
    /\ ret = NoList
    /\ qseq = 0
    /\ runs = 1
    /\ rstart = NoFile
    /\ nq = 0
    /\ metT = FALSE

InitFetch ==
    /\ prog = "fetch"
    /\ mkt \in {"hk", "us"}
    /\ ResolveIdle /\ KrIdle /\ CkptIdle /\ PipelineInit /\ OrchIdle
    /\ items \in SUBSET Secs
    /\ art = [s \in Secs |-> NoArt]
    /\ clk = 0
    /\ job = [s \in Secs |-> IdleJob]
    /\ mpc = "start"
    /\ got = {}
    /\ stats = ZeroStats
    /\ rstats = NoRunStats
    /\ pauses = 0
    /\ fruns = 1

InitKR ==
    /\ prog = "kr"
    /\ mkt = "kr"
    /\ ResolveIdle /\ FetchIdle /\ CkptIdle /\ PipelineInit /\ OrchIdle
    /\ klist = <<>>
    /\ kmf = <<>>
    /\ kdisk = NoManifest
    /\ kfiles = [f \in KFileNames |-> "none"]
    /\ kjob = [i \in KIdx |-> IdleKJob]
    /\ kdisp = {}
    /\ kgot = {}
    /\ kcount = 0
    /\ kpc = "start"
    /\ kruns = 1

InitCkpt ==
    /\ prog = "ckpt"
    /\ mkt = "kr"
    /\ ResolveIdle /\ FetchIdle /\ KrIdle /\ PipelineIdle /\ OrchIdle
    /\ cN \in {2, MaxTodo}
    /\ cCount = 0
    /\ cDirty = 0
    /\ cSinceEF = 0
    /\ cSavedAt = 0
    /\ cSavedEF = 0
    /\ cpc = "loop"

\* lines 81-85: --market is one of the six ids or 'all' (the default)
InitAll ==
    /\ prog = "all"
    /\ mkt = "all"
    /\ ResolveIdle /\ FetchIdle /\ KrIdle /\ CkptIdle /\ PipelineIdle
    /\ omode \in MarketIds \cup {"all"}
    /\ opc = "loop"
    /\ oi = 0
    /\ ostarted = <<>>
    /\ opipe = NoPipe
    /\ oraised = {}

----------------------------------------------------------------------------
Init == InitResolve \/ InitFetch \/ InitKR \/ InitCkpt \/ InitAll

Next ==
    \/ CN_SameDayCache \/ HK_SameDayCache \/ US_SameDayCache
    \/ CN_Query \/ HK_Attempt \/ KR_Attempt \/ US_Site \/ US_Decide
    \/ CacheWriteBegin \/ CacheWriteEnd
    \/ CN_Fallback \/ HK_Fallback \/ KR_Fallback
    \/ Interrupt \/ NewResolution \/ NextDay
    \/ \E s \in Secs : HK_JobStart(s) \/ US_JobStart(s) \/ JobAttempt(s)
                         \/ JobWriteBegin(s) \/ JobWriteEnd(s) \/ MainCollect(s)
    \/ MainStart \/ MainSummary \/ FetchInterrupt \/ NewFetchRun \/ ClockTick
    \/ KR_GetList \/ KR_Build \/ KR_Select
    \/ \E i \in KIdx : KR_JobPreludeRaise(i) \/ KR_JobFetch(i) \/ KR_JobWriteBegin(i)
                        \/ KR_JobWriteEnd(i) \/ KR_Collect(i)
    \/ KR_Crash \/ KR_Finish \/ KR_Interrupt \/ KR_InterruptInSave \/ KR_RemoveManifest \/ KR_NewRun
    \/ Pipeline_FetchReturns \/ Pipeline_KrReturns \/ Pipeline_KrRaises \/ Pipeline_Report
    \/ Orch_NextMarket \/ Orch_SingleMarket \/ Orch_Download \/ Orch_Analysis
    \/ Orch_Report \/ Orch_Finish
    \/ CK_Complete \/ CK_Save \/ CK_Final \/ CK_Interrupt \/ CK_InterruptInSave

Spec == Init /\ [][Next]_vars

----------------------------------------------------------------------------
(* Properties *)

\* C1: whatever the cache held when resolution started (no file, a list from
\* today, a list from an earlier day) and whatever the primary registry did,
\* the list a resolver returns has at least threshold(market) entries or is
\* the market's hardcoded last-resort list.
C1_ResolvedListMeetsThresholdOrIsSeed ==
    (prog = "resolve" /\ rpc = "done" /\ rstart.kind \in {"none", "list"})
        => (ret.n >= Threshold(mkt) \/ ret = Seed(mkt))

\* the freshness policy of each market, applied to the artifact a job found
\* at time t: HK size above the minimum, US also younger than the expiry window
ArtifactFresh(m, f, t) ==
    /\ f.ex
    /\ f.size > 1000
    /\ (m = "us" => (t - f.mt) * (DATA_EXPIRY_SECONDS \div 2) < 3600)

\* C2: in every downloader, a job whose output artifact exists and is fresh
\* when the job starts issues no provider request (for KR, fresh means that
\* the file build_manifest looks for exists).
C2_FreshArtifactIsNeverFetched ==
    /\ prog = "fetch" =>
         \A s \in Secs :
            ArtifactFresh(mkt, job[s].f0, job[s].t0) => job[s].fetches = 0
    /\ prog = "kr" =>
         \A i \in KIdx : kjob[i].had0 => kjob[i].fetches = 0

\* C3: when the KR main has returned, every manifest row holds one of the
\* terminal statuses done, empty, failed; no row is left pending.
C3_CompletedRunLeavesNoPending ==
    (prog = "kr" /\ kpc = "returned")
        => \A i \in 1..Len(kmf) : kmf[i].status \in {"done", "empty", "failed"}

\* a resumed run over a rebuilt manifest that returned with jobs of both kinds
C3_Witness ==
    /\ prog = "kr" /\ kpc = "returned" /\ kruns = 2
    /\ Len(kmf) = 2 /\ kgot # {}
    /\ \E i, j \in 1..Len(kmf) : kmf[i].status = "done" /\ kmf[j].status = "failed"

\* C4: the dictionary the HK / US main returns satisfies
\* success + fail = total, with success = success + exists results,
\* fail = empty + error results and total = the number of items, also on
\* the early return for an empty list.
C4_SuccessPlusFailIsTotal ==
    (prog = "fetch" /\ mpc = "returned")
        => /\ rstats.success + rstats.fail = rstats.total
           /\ rstats.total = Cardinality(items)
           /\ rstats.success = stats.success + stats.exists
           /\ rstats.fail = stats.empty + stats.error

\* a second run that returned with one job skipped as fresh and one empty
C4_Witness ==
    /\ prog = "fetch" /\ mpc = "returned"
    /\ rstats.total = 2 /\ stats.exists = 1 /\ stats.empty = 1

\* C5: when the KR run is interrupted after it started consuming results,
\* the manifest file differs from the manifest in memory in at most 50 rows,
\* and a resumed run submits again at most 50 rows whose terminal status was
\* already known.
C5_InterruptLosesAtMostK ==
    (prog = "ckpt" /\ cpc = "killed")
        => (cDirty <= 50 /\ Redispatched <= 50)

Raised(j) == \E k \in 1..Len(j.log) : j.log[k] \in {"prelude_raise", "raise", "ratelimit"}

\* C6: a job that raised an error anywhere inside the job function ends with
\* the error / failed status, and main does not die of the exception.
C6_AnyErrorEndsFailed ==
    /\ prog = "fetch" =>
         /\ mpc # "crashed"
         /\ \A s \in Secs :
              (job[s].pc = "ret" /\ Raised(job[s])) => job[s].res = "error"
    /\ prog = "kr" =>
         /\ kpc \notin {"unwinding", "crashed"}
         /\ \A i \in KIdx :
              (kjob[i].pc = "ret" /\ kjob[i].out \in {"raise", "prelude_raise"})
                  => kjob[i].res = "failed"

\* C7: a resolver never raises: it returns a list whatever the primary
\* registry does and whatever state the cache file is in.
C7_ResolverNeverRaises == prog = "resolve" => rpc # "raised"

\* C8: the cache file changes only while a resolver writes a list it has
\* just built from the primary registry and that has at least threshold
\* entries; every other step, in particular a whole resolution whose primary
\* result is an error or too short, leaves the file as it was.
C8_CacheOverwrittenOnlyByThresholdList ==
    [][cache' # cache =>
          /\ rpc \in {"write", "writing"}
          /\ cand.src = "primary"
          /\ cand.n >= Threshold(mkt)
          /\ cache'.mday = today
          /\ cache'.kind = "list" => cache'.list = cand]_vars

\* a resolution that queried the registry, got nothing usable and returned,
\* with the list an earlier resolution had written still in the file
C8_Witness ==
    /\ prog = "resolve" /\ rpc = "done"
    /\ nq > 0 /\ ~metT
    /\ cache.kind = "list" /\ cache = rstart
    /\ cache.list.n >= Threshold(mkt)

Statuses(mf) == [i \in 1..Len(mf) |-> mf[i].status]

\* C9: right after build_manifest returned, calling it again with the same
\* list, the same data directory and the manifest file the first call left
\* gives every row the same status.
C9_BuildIsIdempotent ==
    (prog = "kr" /\ kpc = "built")
        => Statuses(BuildManifest(klist, kfiles, kdisk).mf) = Statuses(kmf)

\* a first build (codes still strings) that found one artifact and missed one
C9_Witness ==
    /\ prog = "kr" /\ kpc = "built" /\ Len(kmf) = 2
    /\ kmf[1].code.t = "str"
    /\ kmf[1].status = "done" /\ kmf[2].status = "pending"

OnlyEmptyResults(log) ==
    /\ Len(log) > 0
    /\ \A k \in 1..Len(log) : log[k] \in {"empty", "sleep_short"}

\* the scenario of C10: two securities, no artifact for either, rows at the
\* first request for AAA, nothing at every request for BBB, main has returned
C10_Scenario ==
    /\ prog = "fetch" /\ mpc = "returned" /\ items = Secs
    /\ job["AAA"].f0 = NoArt /\ job["BBB"].f0 = NoArt
    /\ job["AAA"].log = <<"rows">>
    /\ OnlyEmptyResults(job["BBB"].log)

\* C10: in that scenario main returns {total 2, success 1, fail 1}, only AAA
\* has an artifact, and BBB is empty after at most 2 requests.
C10_TwoSecuritiesOneEmpty ==
    C10_Scenario =>
        /\ rstats.total = 2 /\ rstats.success = 1 /\ rstats.fail = 1
        /\ art["AAA"].ex /\ art["AAA"].whole
        /\ ~art["BBB"].ex
        /\ job["BBB"].res = "empty"
        /\ job["BBB"].fetches <= 2

C10_Witness == C10_Scenario /\ job["BBB"].fetches = 2 /\ job["AAA"].res = "success"

\* C11: whenever a market downloader's main() has returned to
\* run_market_pipeline (nothing left to do, some jobs failed, all jobs
\* failed), the value bound to stats, which the pipeline hands to the
\* report, is a {total, success, fail} record and not None.
C11_CompletedRunReturnsRunStats ==
    (prog \in {"fetch", "kr"} /\ pmain = "returned")
        => (pstats.kind = "dict" /\ pstats.success + pstats.fail = pstats.total)

\* C12: with an empty resolved list the HK / US main returns the zero
\* summary {total 0, success 0, fail 0} without entering the pool and without
\* evaluating the completeness ratio; the ratio is evaluated only in a run
\* whose total is positive, so main never dies of a division by zero.
C12_EmptyListGivesZeroSummary ==
    prog = "fetch" =>
        /\ mpc # "crashed"
        /\ items = {} => mpc \in {"start", "returned", "gone"}
        /\ (items = {} /\ mpc = "returned") =>
              rstats = [total |-> 0, success |-> 0, fail |-> 0, ratio |-> -1]
        /\ (items = {} /\ pmain = "returned") => pstats = StatsDict(0, 0, 0)
        /\ rstats.ratio # -1 => rstats.total > 0

\* the empty list reached the orchestrator as the zero summary
C12_Witness ==
    /\ prog = "fetch" /\ items = {}
    /\ pmain = "returned" /\ ppc = "sent"
    /\ pstats = StatsDict(0, 0, 0)

\* C13: after the process was terminated while jobs were writing, no output
\* file that the HK / US size check accepts (size above 1000 bytes), and no
\* file that the KR manifest scan counts as done (it exists under the row's
\* name), is anything but the complete fetched series.
C13_InterruptedWriteNeverLooksComplete ==
    /\ (prog = "fetch" /\ mpc = "killed") =>
          \A s \in Secs : (art[s].ex /\ art[s].size > 1000) => art[s].whole
    /\ (prog = "kr" /\ kpc = "killed") =>
          \A f \in KFileNames : kfiles[f] # "none" => kfiles[f] = "whole"

\* a file of valid size whose name decodes to the security of the row
ValidArtifactFor(row, files) ==
    \E f \in KFileNames :
        /\ StripZeros(f[1]) = StripZeros(row.code.d) /\ f[2] = row.board
        /\ files[f] # "none"
        /\ KFileBytes(files[f]) > MIN_VALID_SIZE

\* C14: a build that finds no manifest file returns one row per security of
\* the list, each pending or done, and a row is done only if DATA_DIR holds
\* an artifact of that security larger than the minimum valid size.
C14_FirstBuildDoneOnlyForValidArtifact ==
    [][(prog = "kr" /\ kpc = "build" /\ kpc' = "built" /\ kdisk.kind = "none") =>
          /\ Len(kmf') = Len(klist)
          /\ \A i \in 1..Len(klist) :
                /\ kmf'[i].code = klist[i].code
                /\ kmf'[i].status \in {"pending", "done"}
                /\ kmf'[i].status = "done" => ValidArtifactFor(klist[i], kfiles)]_vars

\* the same entries, whatever type the reader gave the codes
SameEntries(a, b) == a.src = b.src /\ a.n = b.n /\ a.ver = b.ver

\* C15: a resolution that queried the primary registry and got no list of
\* threshold size returns the list held by the cache file it found (of any
\* day) when there is one, and the hardcoded seed list only when there is
\* no cache file.
C15_FallbackReturnsCacheElseSeed ==
    (prog = "resolve" /\ rpc = "done" /\ nq > 0 /\ ~metT) =>
        IF rstart.kind = "none"
          THEN ret = Seed(mkt)
          ELSE SameEntries(ret, rstart.list)

\* the cache file holds a list of threshold size written today
SameDayValid ==
    cache.kind = "list" /\ cache.mday = today /\ cache.list.n >= Threshold(mkt)

\* C16: the first step of a resolution that finds a list of threshold size
\* written the same day returns exactly that list without querying the
\* primary registry; and a resolution returns without having queried the
\* registry only when the cache file was written the same day.
C16_SameDayCacheReturnedWithoutQuery ==
    [][(prog = "resolve" /\ nq = 0 /\ rpc \in {"start", "query"}
            /\ rpc' \notin {rpc, "killed"}) =>
          /\ SameDayValid => (rpc' = "done" /\ ret' = cache.list
                                /\ nq' = 0 /\ qseq' = qseq)
          /\ (rpc' = "done" /\ nq' = 0) => cache.mday = today]_vars

\* the provider outcomes in a job's history, in order
Attempts(log) == SelectSeq(log, LAMBDA e : e \in ProviderOutcomes)

AllRateLimited(log) ==
    /\ Attempts(log) # <<>>
    /\ \A k \in 1..Len(Attempts(log)) : Attempts(log)[k] = "ratelimit"

\* C17: a job all of whose provider attempts ended in a 'Rate limited' error
\* slept the long backoff after each of them and ends with status error,
\* not empty.
C17_ThrottledJobEndsFailed ==
    prog = "fetch" =>
        \A s \in Secs :
            (job[s].pc = "ret" /\ AllRateLimited(job[s].log)) =>
                /\ job[s].res = "error"
                /\ \A k \in 1..Len(job[s].log) :
                      job[s].log[k] = "ratelimit" =>
                          (k < Len(job[s].log) /\ job[s].log[k + 1] = "sleep_long")

\* C18: while the HK pool runs, the number of extra pacing pauses taken so
\* far equals the number of positive multiples of 100 that the cumulative
\* success count (success + exists) has reached: one pause per multiple, none
\* while the count is 0, none for an empty or error completion.
C18_PacingPauseOncePerHundred ==
    (prog = "fetch" /\ mkt = "hk" /\ mpc = "pool")
        => pauses = (stats.success + stats.exists) \div 100

\* a step of the KR pool in which the process stays alive
KrPoolStep ==
    /\ prog = "kr" /\ kpc \in {"pool", "unwinding"}
    /\ kpc' \in {"pool", "unwinding", "returned", "crashed"}

\* the manifest in memory changes only by one row taking the result of its
\* own job, never a second time
KrUpdateIsOwnResultOnce ==
    kmf' # kmf =>
        \E i \in kdisp \ kgot :
            /\ kjob[i].pc = "ret"
            /\ kgot' = kgot \cup {i}
            /\ kmf' = [kmf EXCEPT ![i].status = kjob[i].res]

\* the manifest file changes only to the whole manifest as it is in memory
\* after the update of that step
KrCheckpointIsWholeManifest == kdisk' # kdisk => kdisk' = ToCsv(kmf')

\* C19: in a KR pool run, under every interleaving of the worker threads,
\* the status of a dispatched row is written only from the result of the
\* row's own job and not twice, every write of the manifest file stores the
\* manifest with each row either updated or untouched, and when main ends
\* (by returning or by an exception) every dispatched row has been written.
C19_StatusWrittenExactlyOnce ==
    [][KrPoolStep =>
          /\ KrUpdateIsOwnResultOnce
          /\ KrCheckpointIsWholeManifest
          /\ kpc' \in {"returned", "crashed"} => kgot' = kdisp']_vars

\* C20: a build that finds a manifest file returns the rows of that file,
\* one for one, with the security and the status the file gives them, and
\* leaves the file alone, whatever list was resolved for this run.
C20_PersistedManifestLoadedVerbatim ==
    [][(prog = "kr" /\ kpc = "build" /\ kpc' = "built" /\ kdisk.kind # "none") =>
          /\ kdisk' = kdisk
          /\ Len(kmf') = Len(kdisk.rows)
          /\ \A i \in 1..Len(kdisk.rows) :
                /\ kmf'[i].status = kdisk.rows[i].status
                /\ kmf'[i].board = kdisk.rows[i].board
                /\ StripZeros(kmf'[i].code.d) = StripZeros(kdisk.rows[i].code)]_vars

\* the run resolved the one-entry seed list and still works on the two rows,
\* one of them empty, that an earlier run left in the manifest file
C20_Witness ==
    /\ prog = "kr" /\ kpc = "built" /\ kruns = 2
    /\ klist = KListSeed /\ Len(kmf) = 2
    /\ kmf[2].status = "empty"
    /\ kdisk = ToCsv(kmf)

\* C21: when main selects the rows to process, the rows submitted to the
\* pool are exactly those whose status in the manifest is not done (pending,
\* empty or failed, from this build or an earlier run), each submitted once;
\* while the pool runs no row is submitted again, and a row that was done
\* has no job and keeps its manifest row as it was.
C21_NotDoneRowsDispatchedOnce ==
    [][prog = "kr" =>
          /\ (kpc = "built" /\ kpc' = "pool") =>
                /\ kdisp' = {i \in 1..Len(kmf) : kmf[i].status # "done"}
                /\ \A i \in KIdx :
                      kjob'[i].pc = IF i \in kdisp' THEN "queued" ELSE "idle"
          /\ (kpc = "built" /\ kpc' = "returned") =>
                \A i \in 1..Len(kmf) : kmf[i].status = "done"
          /\ (kpc \in {"pool", "unwinding"}
                /\ kpc' \in {"pool", "unwinding", "returned", "crashed"}) =>
                /\ kdisp' = kdisp
                /\ \A i \in KIdx : kjob'[i].pc = "queued" => kjob[i].pc = "queued"
                /\ \A i \in KIdx \ kdisp : kjob'[i].pc = "idle"
                /\ \A i \in (1..Len(kmf)) \ kdisp :
                      kmf[i].status = "done" /\ kmf'[i] = kmf[i]]_vars

\* a resumed run whose manifest was loaded with row 1 done and row 2 empty or
\* failed: only row 2 was submitted, its job has returned
C21_Witness ==
    /\ prog = "kr" /\ kpc = "pool" /\ kruns = 2
    /\ Len(kmf) = 2 /\ kdisp = {2} /\ kgot = {}
    /\ kmf[1].status = "done" /\ kmf[2].status \in {"empty", "failed"}
    /\ kjob[1].pc = "idle" /\ kjob[2].pc = "ret"

\* the manifest file is a table in which every row is done
AllDonePersisted ==
    /\ kdisk.kind = "table"
    /\ \A i \in 1..Len(kdisk.rows) : kdisk.rows[i].status = "done"

\* C22: as long as the manifest file lists every row as done, no step of a
\* KR run, in this run or a later one, submits a job, issues a provider
\* request, or changes an artifact or the manifest file (only the operator
\* removing the file changes it).
C22_AllDoneManifestFreezesRun ==
    [][(prog = "kr" /\ AllDonePersisted) =>
          /\ kpc' \notin {"pool", "unwinding", "crashed", "raised"}
          /\ kdisp' = {}
          /\ \A i \in KIdx :
                /\ kjob'[i].fetches <= kjob[i].fetches
                /\ kjob'[i].pc \in {kjob[i].pc, "idle"}
          /\ kfiles' = kfiles
          /\ kdisk' \in {kdisk, NoManifest}]_vars

\* a second run found both rows done in the manifest file and returned
\* without a job; the artifacts of the first run are still there
C22_Witness ==
    /\ prog = "kr" /\ kpc = "returned" /\ kruns = 2
    /\ AllDonePersisted /\ Len(kdisk.rows) = 2
    /\ Len(kmf) = 2 /\ kdisp = {} /\ kgot = {}
    /\ \A i \in KIdx : kjob[i] = IdleKJob
    /\ \E f \in KFileNames : kfiles[f] = "whole"

----------------------------------------------------------------------------
(* C23: in 'all' mode the six pipelines are started once each, in the order
   of markets_config, whatever exceptions the steps of earlier markets
   raised: the started ids are always a prefix of the configured order, no
   exception leaves run_market_pipeline or ends main, a pipeline that is over
   leaves the next market ready to start, and main finishes only with all six
   started.  Within one pipeline a report is dispatched only after the
   analysis returned rows, and a pipeline whose download raised has still run
   the analysis step. *)
C23_AllModeStartsEveryMarketInOrder ==
    (prog = "all" /\ omode = "all") =>
        /\ oi \in 0..6
        /\ ostarted = SubSeq(<<"tw-share", "hk-share", "cn-share",
                               "jp-share", "kr-share", "us-share">>, 1, oi)
        /\ opc # "crashed"
        /\ opipe.pc # "raised"
        /\ (opc = "loop" /\ opipe.pc = "returned" /\ oi < 6)
               => ENABLED Orch_NextMarket
        /\ opc = "finished" => oi = 6
        /\ opipe.rep # "none" => opipe.an = "rows"
        /\ opipe.pc = "step3" => opipe.an = "rows"
        /\ (opipe.dl = "raise" /\ opipe.pc \in {"step3", "returned"})
               => opipe.an # "none"

\* a finished 'all' run in which the first market's pipeline raised, the
\* fifth one's too, and the last one's download raised before its analysis
\* gave rows and its report went out
C23_Witness ==
    /\ prog = "all" /\ omode = "all" /\ opc = "finished"
    /\ Len(ostarted) = 6
    /\ {"tw-share", "kr-share", "us-share"} \subseteq oraised
    /\ opipe.dl = "raise" /\ opipe.an = "rows" /\ opipe.rep = "sent"

====
